---- MODULE Spec2Model ----
(***************************************************************************)
(* GR4J rainfall-runoff engine (src/src/models/gr4j.rs; the same code is   *)
(* repeated inside `pub mod hydromodels` of src/src/lib.rs).               *)
(*                                                                         *)
(* f64 is modelled as a small IEEE-754 style binary floating-point format: *)
(* a finite value is an integer number of units of 2^-ScaleBits whose      *)
(* magnitude has at most SigBits significant bits and is below             *)
(* 2^RangeBits; every operation rounds its exact result to nearest, ties   *)
(* to even, with gradual underflow, overflow to +/-Inf, and NaN.  Zero is   *)
(* unsigned (no parameter or input of the model is -0.0).                   *)
(***************************************************************************)
EXTENDS Integers, Sequences, FiniteSets, TLC

\* ------------------------------------------------------------------------
\* Bounds of the floating-point format
\* ------------------------------------------------------------------------
ScaleBits == 12
SigBits == 6
RangeBits == 28

\* ------------------------------------------------------------------------
\* Integer helpers
\* ------------------------------------------------------------------------
Abs(n) == IF n < 0 THEN -n ELSE n
Sgn(n) == IF n < 0 THEN -1 ELSE IF n = 0 THEN 0 ELSE 1
MaxI(a, b) == IF a >= b THEN a ELSE b
MinI(a, b) == IF a <= b THEN a ELSE b

RECURSIVE BitLen(_)
BitLen(n) == IF n = 0 THEN 0 ELSE 1 + BitLen(n \div 2)

RECURSIVE ISqrtB(_, _, _)
\* largest r in lo..hi with r*r <= n (lo*lo <= n < (hi+1)^2)
ISqrtB(n, lo, hi) ==
  IF lo = hi THEN lo
  ELSE LET mid == (lo + hi + 1) \div 2
       IN IF mid * mid <= n THEN ISqrtB(n, mid, hi) ELSE ISqrtB(n, lo, mid - 1)
ISqrt(n) == ISqrtB(n, 0, 2 ^ ((BitLen(n) + 1) \div 2))

\* ------------------------------------------------------------------------
\* f64 values
\* ------------------------------------------------------------------------
Fin(v) == [k |-> "fin", v |-> v]
NaN == [k |-> "nan", v |-> 0]
PInf == [k |-> "inf", v |-> 1]
NInf == [k |-> "inf", v |-> -1]
InfOf(s) == IF s < 0 THEN NInf ELSE PInf
IsNaN(a) == a.k = "nan"
IsInf(a) == a.k = "inf"
IsFin(a) == a.k = "fin"
Zero == Fin(0)
One == Fin(2 ^ ScaleBits)

\* round to nearest, ties to even: quotient q, remainder r, half the divisor
RNE(q, r, half) == IF r > half \/ (r = half /\ q % 2 = 1) THEN q + 1 ELSE q
\* N / 2^d rounded to an integer
Shift(N, d) ==
  IF d <= 0 THEN N * 2 ^ (0 - d)
  ELSE IF d > 30 THEN 0
  ELSE RNE(N \div 2 ^ d, N % 2 ^ d, 2 ^ (d - 1))
Pack(sg, m, qe) ==
  IF m * 2 ^ qe >= 2 ^ RangeBits THEN InfOf(sg) ELSE Fin(sg * m * 2 ^ qe)
RoundQ(sg, N, s, qe) == Pack(sg, Shift(N, qe - s), qe)
RoundBits(sg, N, s, L) ==
  IF L + s > RangeBits THEN InfOf(sg)
  ELSE RoundQ(sg, N, s, MaxI(0, L + s - SigBits))
\* The float nearest to sg * N * 2^s units (N a natural number), ties to even.
RoundTo(sg, N, s) == IF N = 0 THEN Zero ELSE RoundBits(sg, N, s, BitLen(N))

\* The float nearest to sg * (num / 2^G) / d * 2^s units, G guard bits
DivSticky(sg, num, d, s) ==
  RoundTo(sg, 2 * (num \div d) + (IF num % d = 0 THEN 0 ELSE 1), s - 1)
\* The float nearest to sg * (n / d) * 2^s units, for naturals n, d > 0.
DivRound(sg, n, d, s) ==
  DivSticky(sg, n * 2 ^ (2 * SigBits + 2), d, s - (2 * SigBits + 2))

\* significand and exponent of a finite magnitude: a = Mant(a) * 2^Expo(a)
Expo(a) == MaxI(0, BitLen(a) - SigBits)
Mant(a) == a \div 2 ^ Expo(a)

\* the f64 nearest to the decimal literal num/den of the source
Lit(num, den) == DivRound(Sgn(num), Abs(num), den, ScaleBits)

FNeg(a) == IF IsNaN(a) THEN NaN ELSE [k |-> a.k, v |-> 0 - a.v]

AddInt(n) == RoundTo(Sgn(n), Abs(n), 0)
FAdd(a, b) ==
  IF IsNaN(a) \/ IsNaN(b) THEN NaN
  ELSE IF IsInf(a) /\ IsInf(b) THEN (IF a.v = b.v THEN a ELSE NaN)
  ELSE IF IsInf(a) THEN a
  ELSE IF IsInf(b) THEN b
  ELSE AddInt(a.v + b.v)

FSub(a, b) == FAdd(a, FNeg(b))

MulMag(sg, x, y) ==
  RoundTo(sg, Mant(x) * Mant(y), Expo(x) + Expo(y) - ScaleBits)
FMul(a, b) ==
  IF IsNaN(a) \/ IsNaN(b) THEN NaN
  ELSE IF IsInf(a) \/ IsInf(b)
       THEN (IF a.v = 0 \/ b.v = 0 THEN NaN ELSE InfOf(Sgn(a.v) * Sgn(b.v)))
  ELSE MulMag(Sgn(a.v) * Sgn(b.v), Abs(a.v), Abs(b.v))

DivMag(sg, x, y) ==
  DivRound(sg, Mant(x), Mant(y), Expo(x) - Expo(y) + ScaleBits)
FDiv(a, b) ==
  IF IsNaN(a) \/ IsNaN(b) THEN NaN
  ELSE IF IsInf(a) THEN (IF IsInf(b) THEN NaN
                         ELSE InfOf(a.v * (IF b.v < 0 THEN -1 ELSE 1)))
  ELSE IF IsInf(b) THEN Zero
  ELSE IF b.v = 0 THEN (IF a.v = 0 THEN NaN ELSE InfOf(a.v))
  ELSE IF a.v = 0 THEN Zero
  ELSE DivMag(Sgn(a.v) * Sgn(b.v), Abs(a.v), Abs(b.v))

\* sqrt(n * 2^(2 s)) units from the integer root r of n
SqrtRoot(n, r, s) == RoundTo(1, 2 * r + (IF r * r = n THEN 0 ELSE 1), s - 1)
\* sqrt(mant * 2^E) units, shifting the significand left by h bits, h of the
\* parity of E
SqrtShift(mant, E, h) == SqrtRoot(mant * 2 ^ h, ISqrt(mant * 2 ^ h), (E - h) \div 2)
SqrtMag(mant, E) == SqrtShift(mant, E, 2 * SigBits + 2 + ((E - 2 * SigBits - 2) % 2))
FSqrt(a) ==
  IF IsNaN(a) THEN NaN
  ELSE IF IsInf(a) THEN (IF a.v > 0 THEN PInf ELSE NaN)
  ELSE IF a.v < 0 THEN NaN
  ELSE IF a.v = 0 THEN Zero
  ELSE SqrtMag(Mant(a.v), Expo(a.v) + ScaleBits)

\* comparisons: every comparison with NaN is false
Key(a) == IF IsInf(a) THEN a.v * 2 ^ (RangeBits + 1) ELSE a.v
FLt(a, b) == ~IsNaN(a) /\ ~IsNaN(b) /\ Key(a) < Key(b)
FLe(a, b) == ~IsNaN(a) /\ ~IsNaN(b) /\ Key(a) <= Key(b)

\* f64::min / f64::max: a NaN operand is ignored
FMin(a, b) == IF IsNaN(a) THEN b ELSE IF IsNaN(b) THEN a
              ELSE IF FLt(b, a) THEN b ELSE a
FMax(a, b) == IF IsNaN(a) THEN b ELSE IF IsNaN(b) THEN a
              ELSE IF FLt(a, b) THEN b ELSE a

\* f64::powf for the exponents the source uses
Powf2(a) == FMul(a, a)
Powf4(a) == Powf2(Powf2(a))
Powf2_5(a) ==
  IF IsNaN(a) THEN NaN
  ELSE IF a.v < 0 THEN (IF IsInf(a) THEN PInf ELSE NaN)
  ELSE FMul(FMul(a, a), FSqrt(a))
Powf3_5(a) ==
  IF IsNaN(a) THEN NaN
  ELSE IF a.v < 0 THEN (IF IsInf(a) THEN PInf ELSE NaN)
  ELSE FMul(FMul(FMul(a, a), a), FSqrt(a))
Powf0_25(a) ==
  IF IsNaN(a) THEN NaN
  ELSE IF a.v < 0 THEN (IF IsInf(a) THEN PInf ELSE NaN)
  ELSE FSqrt(FSqrt(a))

\* f64::tanh: odd, monotone, tanh(0) = 0, saturating at +/-1; computed as the
\* (3,2) Pade approximant x(15 + x^2)/(15 + 6 x^2) clamped to [-1, 1]
Pade(a, x2) ==
  FDiv(FMul(a, FAdd(Lit(15, 1), x2)), FAdd(Lit(15, 1), FMul(Lit(6, 1), x2)))
Tanh(a) ==
  IF IsNaN(a) THEN NaN
  ELSE IF IsInf(a) THEN (IF a.v > 0 THEN One ELSE FNeg(One))
  ELSE FMax(FNeg(One), FMin(One, Pade(a, FMul(a, a))))

\* ------------------------------------------------------------------------
\* S-curves and unit-hydrograph ordinates
\* ------------------------------------------------------------------------
s_curves1(t, x4) ==
  IF FLe(t, Zero) THEN Zero
  ELSE IF FLt(t, x4) THEN Powf2_5(FDiv(t, x4))
  ELSE One

\* Variant of s_curves2: the upper branch without its `1.0 -`
s_curves2_falling(t, x4) ==
  IF FLe(t, Zero) THEN Zero
  ELSE IF FLt(t, x4) THEN FMul(Lit(1, 2), Powf2_5(FDiv(t, x4)))
  ELSE IF FLt(t, FMul(Lit(2, 1), x4))
       THEN FMul(Lit(1, 2), Powf2_5(FSub(Lit(2, 1), FDiv(t, x4))))
  ELSE One

s_curves2(t, x4) ==
  IF FLe(t, Zero) THEN Zero
  ELSE IF FLt(t, x4) THEN FMul(Lit(1, 2), Powf2_5(FDiv(t, x4)))
  ELSE IF FLt(t, FMul(Lit(2, 1), x4))
       THEN FSub(One, FMul(Lit(1, 2), Powf2_5(FSub(Lit(2, 1), FDiv(t, x4)))))
  ELSE One

\* f64::ceil
Ceil(a) == IF IsFin(a) THEN 0 - ((0 - a.v) \div (2 ^ ScaleBits)) ELSE 0
\* a length no allocation can satisfy
HugeLen == 2 ^ 30
\* Variant of CeilUsize: `x as usize` without the ceil, which truncates
TruncUsize(a) ==
  IF IsNaN(a) THEN 0
  ELSE IF IsInf(a) THEN (IF a.v > 0 THEN HugeLen ELSE 0)
  ELSE MaxI(0, a.v \div (2 ^ ScaleBits))
\* `x.ceil() as usize`: NaN and negative values give 0, +Inf saturates
CeilUsize(a) ==
  IF IsNaN(a) THEN 0
  ELSE IF IsInf(a) THEN (IF a.v > 0 THEN HugeLen ELSE 0)
  ELSE MaxI(0, Ceil(a))
\* `x.ceil() as i32`: NaN gives 0, negative values stay negative
CeilI32(a) ==
  IF IsNaN(a) THEN 0
  ELSE IF IsInf(a) THEN a.v * HugeLen
  ELSE Ceil(a)

Zeros(n) == [i \in 1..n |-> Zero]

\* f64::from(t) of an i32 t
FromI32(t) == AddInt(t * 2 ^ ScaleBits)

\* Variant of uh1_ordinates: the differences taken one step late,
\* SS1(t + 1) - SS1(t) for t = 1..n
uh1_ordinates_late(x4) ==
  [t \in 1..CeilI32(x4) |->
     FSub(s_curves1(FAdd(FromI32(t), One), x4), s_curves1(FromI32(t), x4))]

uh1_ordinates(x4) ==
  [t \in 1..CeilI32(x4) |->
     FSub(s_curves1(FromI32(t), x4), s_curves1(FSub(FromI32(t), One), x4))]

uh2_ordinates(x4) ==
  [t \in 1..CeilI32(FMul(Lit(2, 1), x4)) |->
     FSub(s_curves2(FromI32(t), x4), s_curves2(FSub(FromI32(t), One), x4))]

\* ------------------------------------------------------------------------
\* GR4JModel
\* ------------------------------------------------------------------------
GR4JParams(x1, x2, x3, x4) == [x1 |-> x1, x2 |-> x2, x3 |-> x3, x4 |-> x4]

GR4JModel(params, ps, rs, uh1, uh2) ==
  [params |-> params, production_store |-> ps, routing_store |-> rs,
   uh1 |-> uh1, uh2 |-> uh2]

Default ==
  GR4JModel(GR4JParams(Lit(350, 1), Zero, Lit(90, 1), Lit(17, 10)),
            Zero, Zero,
            Zeros(CeilUsize(Lit(17, 10))),
            Zeros(CeilUsize(FMul(Lit(2, 1), Lit(17, 10)))))

\* Variant of create: uh2 sized like uh1
create_short(params) ==
  GR4JModel(params, Zero, Zero,
            Zeros(CeilUsize(params.x4)), Zeros(CeilUsize(params.x4)))

\* GR4JModel::create, for a finite x4
create(params) ==
  GR4JModel(params, Zero, Zero,
            Zeros(CeilUsize(params.x4)),
            Zeros(CeilUsize(FMul(Lit(2, 1), params.x4))))

\* --- one timestep: production store (gr4j.rs 129-159) --------------------
\* scaled_net_precip.tanh() / scaled_net_evap.tanh() of the net amount pn
tanh_scaled(pn, x1) == Tanh(FMin(Lit(13, 1), FDiv(pn, x1)))

reservoir_production(S, x1, th) ==
  FDiv(FMul(FMul(x1, FSub(One, Powf2(FDiv(S, x1)))), th),
       FAdd(One, FMul(FDiv(S, x1), th)))

net_evap(S, x1, th) ==
  FDiv(FMul(S, FMul(FSub(Lit(2, 1), FDiv(S, x1)), th)),
       FAdd(One, FMul(FSub(One, FDiv(S, x1)), th)))

percolation(S, x1) ==
  FDiv(S, Powf0_25(FAdd(One, Powf4(FDiv(FDiv(S, Lit(225, 100)), x1)))))

\* lines 157-159: the store becomes the percolation, the rest is routed
Percolated(S, perc, routing_pattern) ==
  [production_store |-> perc,
   routing_pattern |-> FAdd(routing_pattern, FSub(S, perc))]
Percolate(S, x1, routing_pattern) ==
  Percolated(S, percolation(S, x1), routing_pattern)

\* lines 130-138 and 153, p > e
WetStore(S, x1, pn, rprod) ==
  Percolate(FAdd(FSub(S, Zero), rprod), x1, FSub(pn, rprod))
\* lines 140-150 and 153, p <= e (or a NaN among them)
DryStore(S, x1, nevap) ==
  Percolate(FAdd(FSub(S, nevap), Zero), x1, Zero)

Production(S, x1, p, e) ==
  IF FLt(e, p)
  THEN WetStore(S, x1, FSub(p, e),
                reservoir_production(S, x1, tanh_scaled(FSub(p, e), x1)))
  ELSE DryStore(S, x1, net_evap(S, x1, tanh_scaled(FSub(e, p), x1)))

\* --- one timestep: unit hydrographs (gr4j.rs 161-177) --------------------
\* One shift-and-accumulate pass over a buffer.  The loop bound `len() - 1`
\* underflows on an empty buffer, and the index into the ordinates goes out
\* of bounds when the buffer is more than one slot longer than the kernel:
\* both panic, the latter after the slots below the kernel length were
\* overwritten.
\* Variant of UhShift: slot i accumulated in place, `self.uh1[i]` read where
\* the code reads `self.uh1[i + 1]`
UhShift_inplace(uh, ord, routing_pattern) ==
  IF Len(uh) = 0 THEN [uh |-> uh, panicked |-> TRUE]
  ELSE IF Len(uh) - 1 > Len(ord)
       THEN [uh |-> [i \in 1..Len(uh) |->
                       IF i <= Len(ord)
                       THEN FAdd(uh[i], FMul(ord[i], routing_pattern))
                       ELSE uh[i]],
             panicked |-> TRUE]
  ELSE [uh |-> [i \in 1..Len(uh) |->
                  IF i < Len(uh)
                  THEN FAdd(uh[i], FMul(ord[i], routing_pattern))
                  ELSE IF Len(ord) > 0
                       THEN FMul(ord[Len(ord)], routing_pattern)
                       ELSE uh[i]],
        panicked |-> FALSE]
UhShift(uh, ord, routing_pattern) ==
  IF Len(uh) = 0 THEN [uh |-> uh, panicked |-> TRUE]
  ELSE IF Len(uh) - 1 > Len(ord)
       THEN [uh |-> [i \in 1..Len(uh) |->
                       IF i <= Len(ord)
                       THEN FAdd(uh[i + 1], FMul(ord[i], routing_pattern))
                       ELSE uh[i]],
             panicked |-> TRUE]
  ELSE [uh |-> [i \in 1..Len(uh) |->
                  IF i < Len(uh)
                  THEN FAdd(uh[i + 1], FMul(ord[i], routing_pattern))
                  ELSE IF Len(ord) > 0
                       THEN FMul(ord[Len(ord)], routing_pattern)
                       ELSE uh[i]],
        panicked |-> FALSE]

\* --- one timestep: routing store and output (gr4j.rs 179-191) ------------
groundwater_exchange(x2, R, x3) == FMul(x2, Powf3_5(FDiv(R, x3)))

r2(R, x3) == FDiv(R, Powf0_25(FAdd(One, Powf4(FDiv(R, x3)))))

\* Variant of Emit: qd taken without the max(0, .)
Emit_unclamped(m, gwe, R, r) ==
  [model |-> [m EXCEPT !.routing_store = r],
   q |-> FAdd(FSub(R, r), FAdd(FMul(m.uh2[1], Lit(1, 10)), gwe)),
   panicked |-> FALSE]
\* lines 186-191, R the clamped store and r the store after the outflow
Emit(m, gwe, R, r) ==
  [model |-> [m EXCEPT !.routing_store = r],
   q |-> FAdd(FSub(R, r),
              FMax(Zero, FAdd(FMul(m.uh2[1], Lit(1, 10)), gwe))),
   panicked |-> FALSE]
Outflow(m, gwe, R) == Emit(m, gwe, R, r2(R, m.params.x3))
\* Variant of Routed: the store updated without the max(0, .)
Routed_unclamped(m, gwe) ==
  Outflow(m, gwe,
          FAdd(FAdd(m.routing_store, FMul(m.uh1[1], Lit(9, 10))), gwe))
\* lines 181-182
Routed(m, gwe) ==
  Outflow(m, gwe,
          FMax(Zero, FAdd(FAdd(m.routing_store, FMul(m.uh1[1], Lit(9, 10))),
                          gwe)))
Routing(m) ==
  Routed(m, groundwater_exchange(m.params.x2, m.routing_store, m.params.x3))

\* the two passes in order: a panic in the first leaves uh2 untouched
Shifted(m, u1, u2) ==
  IF u1.panicked
  THEN [model |-> [m EXCEPT !.uh1 = u1.uh], q |-> NaN, panicked |-> TRUE]
  ELSE IF u2.panicked
       THEN [model |-> [m EXCEPT !.uh1 = u1.uh, !.uh2 = u2.uh],
             q |-> NaN, panicked |-> TRUE]
  ELSE Routing([m EXCEPT !.uh1 = u1.uh, !.uh2 = u2.uh])

Produced(m, ord1, ord2, prod) ==
  Shifted([m EXCEPT !.production_store = prod.production_store],
          UhShift(m.uh1, ord1, prod.routing_pattern),
          UhShift(m.uh2, ord2, prod.routing_pattern))

\* The body of the loop over the paired samples (gr4j.rs 125-192).
Step(m, ord1, ord2, p, e) ==
  Produced(m, ord1, ord2, Production(m.production_store, m.params.x1, p, e))

\* qsim.push(q), unless the step panicked
RunAppend(s, qsim) ==
  [model |-> s.model, qsim |-> IF s.panicked THEN qsim ELSE Append(qsim, s.q),
   panicked |-> s.panicked]

\* Variant of ZipLen: the zip taken against potential_evap.iter().skip(1)
ZipLenSkipped(precip, potential_evap) ==
  MinI(Len(precip), MaxI(0, Len(potential_evap) - 1))

\* precip.iter().zip(potential_evap) stops with the shorter series
ZipLen(precip, potential_evap) == MinI(Len(precip), Len(potential_evap))

RECURSIVE RunFrom(_, _, _, _, _, _)
\* the loop over the zip, from pair i on (gr4j.rs 125)
RunFrom(r, ord1, ord2, precip, potential_evap, i) ==
  IF r.panicked \/ i > ZipLen(precip, potential_evap) THEN r
  ELSE RunFrom(RunAppend(Step(r.model, ord1, ord2, precip[i],
                              potential_evap[i]), r.qsim),
               ord1, ord2, precip, potential_evap, i + 1)

Ordinates(ord1, ord2) == [uh1_ordinates |-> ord1, uh2_ordinates |-> ord2]
NoOrds == Ordinates(<< >>, << >>)

\* Variant of RunWith: a run that first clears both buffers, as init does
RunWithCleared(m, ord1, ord2, precip, potential_evap) ==
  [run |-> RunFrom([model |-> [m EXCEPT !.uh1 = Zeros(Len(m.uh1)),
                                        !.uh2 = Zeros(Len(m.uh2))],
                    qsim |-> << >>, panicked |-> FALSE],
                   ord1, ord2, precip, potential_evap, 1),
   ords |-> Ordinates(ord1, ord2)]

\* Variant of RunWith: a run that first fits the buffers to the kernels,
\* `self.uh1.resize(n_uh1 as usize, 0.)`
RunWithResized(m, ord1, ord2, precip, potential_evap) ==
  [run |-> RunFrom([model |-> [m EXCEPT
                      !.uh1 = [i \in 1..Len(ord1) |->
                                 IF i <= Len(m.uh1) THEN m.uh1[i] ELSE Zero],
                      !.uh2 = [i \in 1..Len(ord2) |->
                                 IF i <= Len(m.uh2) THEN m.uh2[i] ELSE Zero]],
                    qsim |-> << >>, panicked |-> FALSE],
                   ord1, ord2, precip, potential_evap, 1),
   ords |-> Ordinates(ord1, ord2)]

RunWith(m, ord1, ord2, precip, potential_evap) ==
  [run |-> RunFrom([model |-> m, qsim |-> << >>, panicked |-> FALSE],
                   ord1, ord2, precip, potential_evap, 1),
   ords |-> Ordinates(ord1, ord2)]

\* Variant of run: the ordinate vectors sized by the buffers,
\* `vec![0.; self.uh1.len()]`, instead of by the x4 of the call
run_buffer_sized(m, precip, potential_evap) ==
  IF CeilI32(m.params.x4) < 0 \/ CeilI32(FMul(Lit(2, 1), m.params.x4)) < 0
     \/ CeilI32(m.params.x4) >= HugeLen
     \/ CeilI32(FMul(Lit(2, 1), m.params.x4)) >= HugeLen
  THEN [run |-> [model |-> m, qsim |-> << >>, panicked |-> TRUE],
        ords |-> NoOrds]
  ELSE RunWith(m,
               [t \in 1..Len(m.uh1) |->
                  FSub(s_curves1(FromI32(t), m.params.x4),
                       s_curves1(FSub(FromI32(t), One), m.params.x4))],
               [t \in 1..Len(m.uh2) |->
                  FSub(s_curves2(FromI32(t), m.params.x4),
                       s_curves2(FSub(FromI32(t), One), m.params.x4))],
               precip, potential_evap)

\* GR4JModel::run.  A negative `ceil() as i32` turns into a huge usize and
\* the allocation of the ordinates panics before anything is touched.
run(m, precip, potential_evap) ==
  IF CeilI32(m.params.x4) < 0 \/ CeilI32(FMul(Lit(2, 1), m.params.x4)) < 0
     \/ CeilI32(m.params.x4) >= HugeLen
     \/ CeilI32(FMul(Lit(2, 1), m.params.x4)) >= HugeLen
  THEN [run |-> [model |-> m, qsim |-> << >>, panicked |-> TRUE],
        ords |-> NoOrds]
  ELSE RunWith(m, uh1_ordinates(m.params.x4), uh2_ordinates(m.params.x4),
               precip, potential_evap)

\* GR4JModel::init.  An Option is << >> (None) or <<v>> (Some(v)); a HashMap
\* is a function on the set of its keys.
\* lines 223-231: the buffers named in the override map replace the zeroed ones
Named(unit_hydrographs, k) ==
  unit_hydrographs # << >> /\ k \in DOMAIN unit_hydrographs[1]
SetBuffers(m, unit_hydrographs) ==
  IF CeilUsize(m.params.x4) >= HugeLen
     \/ CeilUsize(FMul(Lit(2, 1), m.params.x4)) >= HugeLen
  THEN [model |-> m, panicked |-> TRUE]
  ELSE [model |->
          [m EXCEPT
             !.uh1 = IF Named(unit_hydrographs, "uh1")
                     THEN unit_hydrographs[1]["uh1"]
                     ELSE Zeros(CeilUsize(m.params.x4)),
             !.uh2 = IF Named(unit_hydrographs, "uh2")
                     THEN unit_hydrographs[1]["uh2"]
                     ELSE Zeros(CeilUsize(FMul(Lit(2, 1), m.params.x4)))],
        panicked |-> FALSE]
\* Variant of SetStores: a store not passed falls back to the dry state,
\* `production_store.unwrap_or(0.)`
SetStores_reset(m, production_store, routing_store) ==
  [m EXCEPT
     !.production_store = IF production_store # << >>
                          THEN production_store[1] ELSE Zero,
     !.routing_store = IF routing_store # << >> THEN routing_store[1] ELSE Zero]
\* lines 208-214
SetStores(m, production_store, routing_store) ==
  [m EXCEPT
     !.production_store = IF production_store # << >>
                          THEN production_store[1] ELSE @,
     !.routing_store = IF routing_store # << >> THEN routing_store[1] ELSE @]
\* lines 203-206: indexing the HashMap with a missing key panics; the four
\* assignments run in order, so the parameters before the missing one are
\* already stored
SetParams(m, params, keys) ==
  [m EXCEPT
     !.params.x1 = IF "X1" \in keys THEN params["X1"] ELSE @,
     !.params.x2 = IF "X2" \in keys THEN params["X2"] ELSE @,
     !.params.x3 = IF "X3" \in keys THEN params["X3"] ELSE @,
     !.params.x4 = IF "X4" \in keys THEN params["X4"] ELSE @]
\* Variant of init: a missing key keeps the parameter's current value
init_lenient(m, params, production_store, routing_store, unit_hydrographs) ==
  SetBuffers(SetStores(SetParams(m, params, DOMAIN params),
                       production_store, routing_store),
             unit_hydrographs)
init(m, params, production_store, routing_store, unit_hydrographs) ==
  IF "X1" \notin DOMAIN params THEN [model |-> m, panicked |-> TRUE]
  ELSE IF "X2" \notin DOMAIN params
       THEN [model |-> SetParams(m, params, {"X1"}), panicked |-> TRUE]
  ELSE IF "X3" \notin DOMAIN params
       THEN [model |-> SetParams(m, params, {"X1", "X2"}), panicked |-> TRUE]
  ELSE IF "X4" \notin DOMAIN params
       THEN [model |-> SetParams(m, params, {"X1", "X2", "X3"}),
             panicked |-> TRUE]
  ELSE SetBuffers(SetStores(SetParams(m, params, {"X1", "X2", "X3", "X4"}),
                            production_store, routing_store),
                  unit_hydrographs)

\* ------------------------------------------------------------------------
\* Bounds and input domains
\* ------------------------------------------------------------------------
MaxLen == 2      \* longest input series of one run call
MaxOps == 2      \* calls made on one engine after its construction
MaxUhLen == 3    \* longest unit-hydrograph override
SweepDen == 8    \* the kernel sweep steps x4 and t by 1/SweepDen
SweepMax == 3    \* the kernel sweep takes x4 up to SweepMax

RECURSIVE SeqsUpTo(_, _)
SeqsUpTo(S, n) ==
  IF n = 0 THEN {<< >>}
  ELSE LET shorter == SeqsUpTo(S, n - 1)
       IN shorter \cup {Append(q, x) : q \in {r \in shorter : Len(r) = n - 1},
                                          x \in S}

P(x1n, x2n, x3n, x4n, x4d) ==
  GR4JParams(Lit(x1n, 1), Lit(x2n, 1), Lit(x3n, 1), Lit(x4n, x4d))

GoodParams == {P(10, 5, 4, 1, 1), P(10, 5, 4, 2, 1), P(10, -20, 4, 3, 2)}
BadParams == {P(0, 5, 4, 1, 1), P(10, 5, 0, 1, 1), P(-10, 5, -4, 1, 1),
              P(10, 5, 4, 0, 1), P(10, 5, 4, -3, 2)}
ParamSet == GoodParams \cup BadParams

Keys == {"X1", "X2", "X3", "X4"}
AsMap(p) == [k \in Keys |-> IF k = "X1" THEN p.x1 ELSE IF k = "X2" THEN p.x2
                            ELSE IF k = "X3" THEN p.x3 ELSE p.x4]
Without(f, k) == [j \in (DOMAIN f) \ {k} |-> f[j]]
FullMaps == {AsMap(p) : p \in ParamSet}
PartialMaps == {Without(AsMap(P(10, 5, 4, 2, 1)), k) : k \in Keys}

Some(v) == <<v>>
None == << >>
WarmStores == {<<Some(Lit(10, 1)), None>>, <<None, Some(Lit(4, 1))>>,
               <<Some(Lit(10, 1)), Some(Lit(-3, 1))>>}
UhSeqs == SeqsUpTo({Lit(3, 1)}, MaxUhLen)
UhMaps == {[uh1 |-> u] : u \in UhSeqs} \cup {[uh2 |-> u] : u \in UhSeqs}
            \cup {[uh1 |-> <<Lit(3, 1)>>, uh2 |-> <<Lit(3, 1), Lit(1, 1)>>]}
UhArgs == {Some(h) : h \in UhMaps}

InitArgs ==
  {<<f, None, None, None>> : f \in FullMaps \cup PartialMaps}
  \cup {<<f, Some(Lit(10, 1)), Some(Lit(4, 1)), None>> : f \in PartialMaps}
  \cup {<<AsMap(p), w[1], w[2], None>> : p \in GoodParams, w \in WarmStores}
  \cup {<<AsMap(p), None, None, h>> :
          p \in {P(10, 5, 4, 1, 1), P(10, 5, 4, 2, 1)}, h \in UhArgs}

PrecipVals == {Zero, Lit(10, 1)}
EvapVals == {One}
PrecipSeries == SeqsUpTo(PrecipVals, MaxLen)
EvapSeries == SeqsUpTo(EvapVals, MaxLen)

\* the kernel sweep: x4 in (0, SweepMax], t in [-1, 2 SweepMax + 1]
X4Sweep == {Lit(i, SweepDen) : i \in 1..(SweepMax * SweepDen)}
TSweep == {Lit(i, SweepDen) : i \in (0 - SweepDen)..((2 * SweepMax + 1) * SweepDen)}
SweepParams == {GR4JParams(Lit(10, 1), Lit(5, 1), Lit(4, 1), x) : x \in X4Sweep}

\* ------------------------------------------------------------------------
\* State
\* ------------------------------------------------------------------------
VARIABLES
  model,    \* the GR4JModel the caller holds
  status,   \* "ready", or "panicked" once a call on it has panicked
  qsim,     \* the vector returned by the latest run call
  ords,     \* the ordinates the latest run call computed (its locals)
  trail,    \* the calls made on the engine, newest first, each with the state
            \* it started from
  probe     \* the latest direct evaluation of the S-curves

vars == <<model, status, qsim, ords, trail, probe>>

Entry(op, params, ps, rs, uhs, precip, pet) ==
  [op |-> op, pre |-> model, preq |-> qsim, params |-> params,
   production_store |-> ps, routing_store |-> rs, unit_hydrographs |-> uhs,
   precip |-> precip, potential_evap |-> pet]

\* an engine fresh from one of its two constructors
Constructed(params) ==
  /\ model \in {Default} \cup {create(p) : p \in params}
  /\ status = "ready"
  /\ qsim = << >>
  /\ ords = NoOrds
  /\ trail = << >>
  /\ probe = << >>

Init == Constructed(ParamSet)

\* the engine after a call that returned or panicked
Returned(r) ==
  /\ model' = r.model
  /\ status' = IF r.panicked THEN "panicked" ELSE "ready"
\* a panicking run returns nothing
Ran(r) ==
  /\ Returned(r.run)
  /\ qsim' = IF r.run.panicked THEN << >> ELSE r.run.qsim
  /\ ords' = r.ords

\* gr4j.init(&params, production_store, routing_store, unit_hydrographs);
InitCall(params, ps, rs, uhs) ==
  /\ Len(trail) < MaxOps
  /\ status = "ready"
  /\ Returned(init(model, params, ps, rs, uhs))
  /\ trail' = <<Entry("init", params, ps, rs, uhs, << >>, << >>)>> \o trail
  /\ UNCHANGED <<qsim, ords, probe>>

\* let qsim = gr4j.run(&precip, &potential_evap);
Run(precip, potential_evap) ==
  /\ Len(trail) < MaxOps
  /\ status = "ready"
  /\ Ran(run(model, precip, potential_evap))
  /\ trail' = <<Entry("run", << >>, None, None, None, precip, potential_evap)>>
                \o trail
  /\ UNCHANGED probe

\* s_curves1(t, x4) and s_curves2(t, x4), evaluated directly
Probe(t) ==
  /\ status = "ready"
  /\ probe' = [t |-> t, x4 |-> model.params.x4,
               s1 |-> s_curves1(t, model.params.x4),
               s2 |-> s_curves2(t, model.params.x4)]
  /\ UNCHANGED <<model, status, qsim, ords, trail>>

Next ==
  \/ \E a \in InitArgs : InitCall(a[1], a[2], a[3], a[4])
  \/ \E precip \in PrecipSeries, pet \in EvapSeries : Run(precip, pet)

Spec == Init /\ [][Next]_vars

\* The kernel sweep: engines built for every x4 of the sweep, by create or by
\* init on a default engine, one run, and the S-curves at every t of the sweep.
KInit == Constructed(SweepParams)

KNext ==
  \/ \E p \in SweepParams :
       trail = << >> /\ probe = << >> /\ InitCall(AsMap(p), None, None, None)
  \/ \E pet \in EvapSeries :
       /\ probe = << >>
       /\ \A i \in DOMAIN trail : trail[i].op # "run"
       /\ Run(<<Lit(10, 1)>>, pet)
  \/ \E t \in TSweep : trail = << >> /\ Probe(t)

SpecKernel == KInit /\ [][KNext]_vars

\* gr4j.params.x4 = x4;  (params and its fields are pub)
SetX4(x4) ==
  /\ status = "ready"
  /\ model' = [model EXCEPT !.params.x4 = x4]
  /\ trail' = <<Entry("set", [X4 |-> x4], None, None, None, << >>, << >>)>>
                \o trail
  /\ UNCHANGED <<status, qsim, ords, probe>>

\* a further run call, on an engine whose x4 was changed after a run
Rerun(precip, potential_evap) ==
  /\ Len(trail) = 2 /\ trail[2].op = "run" /\ trail[1].op # "run"
  /\ status = "ready"
  /\ Ran(run(model, precip, potential_evap))
  /\ trail' = <<Entry("run", << >>, None, None, None, precip, potential_evap)>>
                \o trail
  /\ UNCHANGED probe

\* A change of x4 between two runs: engines built for every x4 of the sweep
\* are run, given another x4 of the sweep by init or by assignment, and run
\* again.
RNext ==
  \/ trail = << >> /\ Run(<<Lit(10, 1)>>, <<One>>)
  \/ \E p \in SweepParams :
       /\ Len(trail) = 1 /\ trail[1].op = "run"
       /\ InitCall(AsMap(p), None, None, None)
  \/ \E x4 \in X4Sweep : Len(trail) = 1 /\ trail[1].op = "run" /\ SetX4(x4)
  \/ \E pet \in EvapSeries : Rerun(<<Lit(10, 1)>>, pet)

SpecRecompute == KInit /\ [][RNext]_vars

\* ------------------------------------------------------------------------
\* Properties
\* ------------------------------------------------------------------------
Unit == 2 ^ ScaleBits
AfterRun == trail # << >> /\ trail[1].op = "run"
AfterInit == trail # << >> /\ trail[1].op = "init"
Paired(e) == Len(e.precip) = Len(e.potential_evap)
Positive(a) == FLt(Zero, a)
Rest(q, k) == SubSeq(q, k + 1, Len(q))

\* --- C1 -----------------------------------------------------------------
\* b, the second of two chained runs, ends where the engine is now, and the
\* two outputs concatenated are what the single run returned
ChainEnds(qA, b) == ~b.panicked /\ b.model = model /\ qA \o b.qsim = qsim
ChainFrom(a, precipB, evapB) ==
  ~a.panicked /\ ChainEnds(a.qsim, run(a.model, precipB, evapB).run)
\* run(A) then run(B) from m, against the engine's state after run(A ++ B)
Chained(m, precip, evap, k) ==
  ChainFrom(run(m, SubSeq(precip, 1, k), SubSeq(evap, 1, k)).run,
            Rest(precip, k), Rest(evap, k))
\* one run of the concatenation from m, against the engine's state after the
\* two calls
SingleEnds(c, qA) == ~c.panicked /\ c.model = model /\ c.qsim = qA \o qsim

\* C1: state persists across run calls.  Whenever a run on paired series
\* returned, splitting its input at any point into A ++ B and running A and
\* then B from the same starting state gives the same concatenated output and
\* the same final engine; and whenever two run calls on paired series were
\* made in a row, one run of the concatenated series from the state before
\* the first gives the two outputs concatenated and the same final engine.
C1_ChainedRuns ==
  /\ (AfterRun /\ status = "ready" /\ Paired(trail[1]))
       => \A k \in 0..Len(trail[1].precip) :
            Chained(trail[1].pre, trail[1].precip, trail[1].potential_evap, k)
  /\ (Len(trail) >= 2 /\ AfterRun /\ trail[2].op = "run" /\ status = "ready"
      /\ Paired(trail[1]) /\ Paired(trail[2]))
       => SingleEnds(run(trail[2].pre, trail[2].precip \o trail[1].precip,
                         trail[2].potential_evap \o trail[1].potential_evap).run,
                     trail[1].preq)

\* two non-empty runs in a row on an engine with flow still in its buffers
C1_Witness ==
  /\ Len(trail) >= 2 /\ AfterRun /\ trail[2].op = "run" /\ status = "ready"
  /\ Paired(trail[1]) /\ Paired(trail[2])
  /\ Len(trail[1].precip) >= 1 /\ Len(trail[2].precip) >= 1
  /\ Len(model.uh2) >= 2 /\ Positive(trail[1].pre.uh2[2])
  /\ Positive(qsim[1])

\* --- C2 -----------------------------------------------------------------
\* the engine is where the call r leaves it, and returned what r returns
SameOutcome(r, n) ==
  /\ r.panicked <=> status = "panicked"
  /\ r.model = model
  /\ status = "ready" => (qsim = r.qsim /\ Len(qsim) = n)
Truncated(m, precip, evap, n) ==
  SameOutcome(run(m, SubSeq(precip, 1, n), SubSeq(evap, 1, n)).run, n)

\* C2: run emits one value per paired sample, in input order; with series of
\* different lengths it raises no error of its own and processes exactly the
\* overlapping prefix: same outcome, outputs and final state as the run on
\* both series cut to the shorter length.
C2_OnePerPair ==
  AfterRun =>
    Truncated(trail[1].pre, trail[1].precip, trail[1].potential_evap,
              IF Len(trail[1].precip) <= Len(trail[1].potential_evap)
              THEN Len(trail[1].precip) ELSE Len(trail[1].potential_evap))

\* a run on a longer precip series than evaporation series, both non-empty
C2_Witness ==
  /\ AfterRun /\ status = "ready"
  /\ Len(trail[1].precip) > Len(trail[1].potential_evap)
  /\ Len(trail[1].potential_evap) >= 1
  /\ Len(qsim) = Len(trail[1].potential_evap)
  /\ Positive(qsim[1])

\* --- C3 -----------------------------------------------------------------
\* n = ceil(a) for a finite a, stated without Ceil
IsCeilOf(n, units) == (n - 1) * Unit < units /\ units <= n * Unit
AllZero(uh) == \A i \in 1..Len(uh) : uh[i] = Zero
ColdBuffers ==
  /\ IsCeilOf(Len(model.uh1), model.params.x4.v)
  /\ IsCeilOf(Len(model.uh2), 2 * model.params.x4.v)
  /\ Len(model.uh1) >= 1 /\ Len(model.uh2) >= 1
  /\ AllZero(model.uh1) /\ AllZero(model.uh2)

\* C3: for every x4 > 0, right after create(params) (or Default) and right
\* after an init without unit-hydrograph override, uh1 has exactly ceil(x4)
\* slots and uh2 exactly ceil(2 x4), both at least one, all zero.
C3_ColdBufferLengths ==
  ((trail = << >> \/ (AfterInit /\ status = "ready"
                      /\ trail[1].unit_hydrographs = None))
   /\ Positive(model.params.x4))
    => ColdBuffers

\* init without override, for a fractional x4 above 1
C3_Witness ==
  /\ AfterInit /\ status = "ready" /\ trail[1].unit_hydrographs = None
  /\ Len(model.uh1) >= 2 /\ model.params.x4.v < Len(model.uh1) * Unit
  /\ model.params # trail[1].pre.params

\* --- C4 -----------------------------------------------------------------
RECURSIVE SumUnits(_)
\* the exact sum of a sequence of finite values, in units of 2^-ScaleBits
SumUnits(q) == IF q = << >> THEN 0 ELSE q[1].v + SumUnits(Rest(q, 1))
InUnitInterval(q) ==
  \A i \in 1..Len(q) : IsFin(q[i]) /\ 0 <= q[i].v /\ q[i].v <= Unit
\* half the spacing of the values just below 1: the largest rounding error
\* of one subtraction of two values of [0, 1]
HalfUlp == 2 ^ (ScaleBits - SigBits - 1)
SumsToOneWithin(q, tol) ==
  InUnitInterval(q) /\ Abs(SumUnits(q) - Unit) <= tol
RanKernel == AfterRun /\ status = "ready" /\ Positive(trail[1].pre.params.x4)

\* C4 as stated: for every x4 > 0 the ordinates run computes for uh1 sum to
\* exactly 1, and so do those it computes for uh2.
C4_SumsToOne ==
  RanKernel => /\ SumsToOneWithin(ords.uh1_ordinates, 0)
               /\ SumsToOneWithin(ords.uh2_ordinates, 0)

\* C4, amended: for every x4 > 0 the ordinates of each filter lie in [0, 1]
\* and sum to 1 up to rounding: each ordinate is a rounded difference of two
\* S-curve values, so the sum is off 1 by at most half an ulp of 1 per
\* ordinate.
C4_SumsToOneRounded ==
  RanKernel =>
    /\ SumsToOneWithin(ords.uh1_ordinates, Len(ords.uh1_ordinates) * HalfUlp)
    /\ SumsToOneWithin(ords.uh2_ordinates, Len(ords.uh2_ordinates) * HalfUlp)

\* a run whose kernels have several ordinates, one sum rounded off 1
C4_Witness ==
  /\ RanKernel
  /\ Len(ords.uh1_ordinates) >= 2 /\ Len(ords.uh2_ordinates) >= 3
  /\ InUnitInterval(ords.uh1_ordinates) /\ InUnitInterval(ords.uh2_ordinates)
  /\ (SumUnits(ords.uh1_ordinates) # Unit \/ SumUnits(ords.uh2_ordinates) # Unit)

\* --- C5 -----------------------------------------------------------------
Shorter(a, b) == IF a <= b THEN a ELSE b
PairsOf(e) == Shorter(Len(e.precip), Len(e.potential_evap))
Overrides(e, k) ==
  e.op = "init" /\ DOMAIN e.params = Keys /\ Named(e.unit_hydrographs, k)

\* C5 as stated: a unit-hydrograph override passed to init is accepted
\* whatever its length (shorter or longer than ceil(x4) / ceil(2 x4), or
\* empty): the named buffer becomes exactly the supplied sequence, and a run
\* that follows returns one value per pair and leaves the buffer lengths as
\* they were supplied.
C5_OverrideAnyLength ==
  /\ (AfterInit /\ Overrides(trail[1], "uh1"))
       => (status = "ready" /\ model.uh1 = trail[1].unit_hydrographs[1]["uh1"])
  /\ (AfterInit /\ Overrides(trail[1], "uh2"))
       => (status = "ready" /\ model.uh2 = trail[1].unit_hydrographs[1]["uh2"])
  /\ (Len(trail) >= 2 /\ AfterRun
      /\ (Overrides(trail[2], "uh1") \/ Overrides(trail[2], "uh2")))
       => /\ status = "ready"
          /\ Len(qsim) = PairsOf(trail[1])
          /\ Len(model.uh1) = Len(trail[1].pre.uh1)
          /\ Len(model.uh2) = Len(trail[1].pre.uh2)

\* --- C6 -----------------------------------------------------------------
\* C6: an init whose parameter map lacks one of X1..X4 fails at once: the
\* call panics, no timestep is executed and no streamflow value is emitted,
\* the stores and buffers are as before the call, store and buffer overrides
\* passed along are not applied, and the output held by the caller is the one
\* of the call before.
C6_MissingKeyFails ==
  (AfterInit /\ ~(Keys \subseteq DOMAIN trail[1].params))
    => /\ status = "panicked"
       /\ qsim = trail[1].preq
       /\ model.production_store = trail[1].pre.production_store
       /\ model.routing_store = trail[1].pre.routing_store
       /\ model.uh1 = trail[1].pre.uh1
       /\ model.uh2 = trail[1].pre.uh2

\* an init without X3 and with store overrides, after a run that emitted flow
C6_Witness ==
  /\ Len(trail) >= 2 /\ AfterInit /\ trail[2].op = "run"
  /\ "X1" \in DOMAIN trail[1].params /\ "X3" \notin DOMAIN trail[1].params
  /\ trail[1].production_store # None
  /\ status = "panicked"
  /\ qsim # << >> /\ Positive(qsim[1])

\* --- C7 -----------------------------------------------------------------
OutOfRange(p) == ~Positive(p.x1) \/ ~Positive(p.x3) \/ ~Positive(p.x4)
FromMap(f) == GR4JParams(f["X1"], f["X2"], f["X3"], f["X4"])
\* no call before the latest replaced a buffer
StandardBuffers ==
  \A i \in 2..Len(trail) : trail[i].unit_hydrographs = None

\* C7 as stated: out-of-range parameters (x1 <= 0, x3 <= 0 or x4 <= 0) are
\* not checked: init reports no error for them, and run on an engine holding
\* them reports none either and still returns one value per input pair.
C7_OutOfRangeRuns ==
  /\ (AfterInit /\ DOMAIN trail[1].params = Keys
      /\ trail[1].unit_hydrographs = None
      /\ OutOfRange(FromMap(trail[1].params)))
       => status = "ready"
  /\ (AfterRun /\ StandardBuffers /\ OutOfRange(trail[1].pre.params))
       => (status = "ready" /\ Len(qsim) = PairsOf(trail[1]))

\* --- C8 -----------------------------------------------------------------
\* an init with a full parameter map and no override, on a default engine
ColdInit(e) ==
  /\ e.op = "init" /\ e.pre = Default /\ DOMAIN e.params = Keys
  /\ e.production_store = None /\ e.routing_store = None
  /\ e.unit_hydrographs = None
SameRun(r) ==
  /\ r.panicked <=> status = "panicked"
  /\ r.model = model
  /\ status = "ready" => qsim = r.qsim

\* C8: create(p) is Default followed by init(p, None, None, None): the
\* engine after that init is the engine create(p) builds, field by field,
\* and a run on it ends, returns and leaves the engine as the same run on
\* create(p) does.
C8_CreateIsDefaultInit ==
  /\ (Len(trail) = 1 /\ ColdInit(trail[1]))
       => (status = "ready" /\ model = create(FromMap(trail[1].params)))
  /\ (Len(trail) = 2 /\ AfterRun /\ ColdInit(trail[2]))
       => SameRun(run(create(FromMap(trail[2].params)), trail[1].precip,
                      trail[1].potential_evap).run)

\* a default engine, initialised cold to parameters other than the default
\* ones, then run over two pairs
C8_Witness ==
  /\ Len(trail) = 2 /\ AfterRun /\ ColdInit(trail[2])
  /\ status = "ready" /\ Len(qsim) = 2 /\ Positive(qsim[2])
  /\ Len(model.uh2) # Len(Default.uh2)

Probed == probe # << >>
UnitValue(a) == IsFin(a) /\ 0 <= a.v /\ a.v <= Unit

\* C10: for x4 > 0 and any t, s_curves1 and s_curves2 return a value of
\* [0, 1] (never NaN), are non-decreasing in t, are 0 for t <= 0, and reach 1
\* at t >= x4 (s_curves1) and t >= 2 x4 (s_curves2); s_curves2 is exactly
\* 0.5 at t = x4.
C10_SCurves ==
  (Probed /\ Positive(probe.x4))
    => /\ UnitValue(probe.s1) /\ UnitValue(probe.s2)
       /\ FLe(probe.t, Zero) => (probe.s1 = Zero /\ probe.s2 = Zero)
       /\ FLe(probe.x4, probe.t) => probe.s1 = One
       /\ probe.t = probe.x4 => probe.s2 = Lit(1, 2)
       /\ FLe(FMul(Lit(2, 1), probe.x4), probe.t) => probe.s2 = One
       /\ \A u \in TSweep :
            FLe(probe.t, u)
              => /\ FLe(probe.s1, s_curves1(u, probe.x4))
                 /\ FLe(probe.s2, s_curves2(u, probe.x4))

\* the upper branch of s_curves2, strictly between x4 and 2 x4
C10_Witness ==
  /\ Probed /\ Positive(probe.x4)
  /\ FLt(probe.x4, probe.t) /\ FLt(probe.t, FMul(Lit(2, 1), probe.x4))
  /\ FLt(Lit(1, 2), probe.s2) /\ FLt(probe.s2, One)
  /\ probe.s1 = One

\* --- C11 ----------------------------------------------------------------
RECURSIVE PatternsOf(_, _, _, _, _)
RECURSIVE PatternsAfter(_, _, _, _, _)
\* the routing_pattern of every step from pair i on, S the production store
\* before step i; the production store evolves on its own
PatternsOf(S, x1, precip, evap, i) ==
  IF i > Shorter(Len(precip), Len(evap)) THEN << >>
  ELSE PatternsAfter(Production(S, x1, precip[i], evap[i]), x1, precip, evap, i)
PatternsAfter(prod, x1, precip, evap, i) ==
  <<prod.routing_pattern>>
    \o PatternsOf(prod.production_store, x1, precip, evap, i + 1)

RECURSIVE ConvSum(_, _, _, _)
\* sum over the kernel slots k..last of ord[k] * q[T - k] (slots and steps
\* counted from 0), q holding the patterns of steps 0..T; accumulated in
\* f64, oldest contribution first
ConvSum(ord, q, k, last) ==
  IF k = last THEN FMul(ord[k + 1], q[Len(q) - k])
  ELSE FAdd(ConvSum(ord, q, k + 1, last), FMul(ord[k + 1], q[Len(q) - k]))
Convolved(ord, q) == ConvSum(ord, q, 0, Shorter(Len(ord), Len(q)) - 1)
\* m is cold for the kernels of the latest run
ColdFor(m) ==
  /\ Len(m.uh1) = Len(ords.uh1_ordinates) /\ AllZero(m.uh1)
  /\ Len(m.uh2) = Len(ords.uh2_ordinates) /\ AllZero(m.uh2)
ConvolvedNow(q) ==
  /\ model.uh1[1] = Convolved(ords.uh1_ordinates, q)
  /\ model.uh2[1] = Convolved(ords.uh2_ordinates, q)

\* C11: the shift-and-accumulate update is a convolution.  From a cold start
\* (zeroed buffers as long as their kernels), after step t of a run, or of
\* two runs in a row, uh1[0] and uh2[0] are the sum over the kernel slots
\* k <= t of ord[k] * q[t - k], q[s] being the routing pattern of step s:
\* the f64 sum of those products, oldest contribution first.  (Each prefix
\* of a series is a series of the sweep, so the last step stands for each.)
C11_Convolution ==
  /\ (AfterRun /\ status = "ready" /\ PairsOf(trail[1]) >= 1
      /\ Positive(trail[1].pre.params.x4) /\ ColdFor(trail[1].pre))
       => ConvolvedNow(PatternsOf(trail[1].pre.production_store,
                                  trail[1].pre.params.x1, trail[1].precip,
                                  trail[1].potential_evap, 1))
  /\ (Len(trail) >= 2 /\ AfterRun /\ trail[2].op = "run" /\ status = "ready"
      /\ PairsOf(trail[1]) >= 1 /\ Paired(trail[2])
      /\ Positive(trail[2].pre.params.x4) /\ ColdFor(trail[2].pre))
       => ConvolvedNow(PatternsOf(trail[2].pre.production_store,
                                  trail[2].pre.params.x1,
                                  trail[2].precip \o trail[1].precip,
                                  trail[2].potential_evap
                                    \o trail[1].potential_evap, 1))

\* four steps in two runs from a cold engine with a three-slot uh2: the
\* head of uh2 sums three products, the oldest pattern has left the buffer
C11_Witness ==
  /\ Len(trail) >= 2 /\ AfterRun /\ trail[2].op = "run" /\ status = "ready"
  /\ PairsOf(trail[1]) = 2 /\ PairsOf(trail[2]) = 2 /\ Paired(trail[2])
  /\ ColdFor(trail[2].pre) /\ Len(model.uh2) = 3 /\ Len(model.uh1) = 2
  /\ Positive(trail[2].precip[1]) /\ Positive(trail[1].precip[2])
  /\ Positive(model.uh1[1]) /\ Positive(model.uh2[1])

\* --- C12 ----------------------------------------------------------------
\* the ordinates of a kernel of n1 resp. n2 slots, from the S-curves of x4
KernelOf(x4, n1, n2) ==
  Ordinates([t \in 1..n1 |-> FSub(s_curves1(FromI32(t), x4),
                                  s_curves1(FromI32(t - 1), x4))],
            [t \in 1..n2 |-> FSub(s_curves2(FromI32(t), x4),
                                  s_curves2(FromI32(t - 1), x4))])
\* a run, a change of x4 by init or by assignment, and a run
RanChangedRan ==
  /\ Len(trail) = 3 /\ trail[1].op = "run" /\ trail[3].op = "run"
  /\ trail[2].op \in {"init", "set"}

\* C12: the ordinates are recomputed on every run from the x4 in effect.
\* When x4 was set by init or assigned between two runs, the later run
\* (whether it returns or panics in its loop) works with uh1 ordinates of
\* ceil(x4) slots and uh2 ordinates of ceil(2 x4) slots, x4 being the new
\* value, and each is the S-curve difference for the new x4.
C12_OrdinatesRecomputed ==
  (RanChangedRan /\ Positive(model.params.x4))
    => /\ model.params.x4 = trail[2].params["X4"]
       /\ IsCeilOf(Len(ords.uh1_ordinates), trail[2].params["X4"].v)
       /\ IsCeilOf(Len(ords.uh2_ordinates), 2 * trail[2].params["X4"].v)
       /\ ords = KernelOf(trail[2].params["X4"], Len(ords.uh1_ordinates),
                          Len(ords.uh2_ordinates))

\* x4 assigned a value with a longer kernel between two runs that returned
C12_Witness ==
  /\ RanChangedRan /\ trail[2].op = "set" /\ status = "ready"
  /\ Len(qsim) = 1
  /\ Len(ords.uh1_ordinates) > Len(model.uh1)
  /\ FLt(trail[2].pre.params.x4, model.params.x4)

\* --- C13 ----------------------------------------------------------------
\* the store is the value passed, or the one before the call
StoreApplied(now, before, passed) ==
  IF passed = None THEN now = before ELSE now = passed[1]
\* the buffer is the sequence supplied under the name k, or zeros of the
\* derived length (units is x4 resp. 2 x4, in units of 2^-ScaleBits)
BufferApplied(now, unit_hydrographs, k, units) ==
  IF Named(unit_hydrographs, k) THEN now = unit_hydrographs[1][k]
  ELSE /\ AllZero(now)
       /\ IF units > 0 THEN IsCeilOf(Len(now), units) ELSE Len(now) = 0

\* C13: init applies warm-start values selectively.  After an init that
\* returned, a store passed as Some(v) is v and a store passed as None is
\* what it was before the call; a buffer named in the override map is the
\* supplied sequence, and a buffer not named is all zeros, of length
\* ceil(x4) for uh1 and ceil(2 x4) for uh2 (no slot when x4 <= 0), whatever
\* it held before.
C13_SelectiveWarmStart ==
  (AfterInit /\ status = "ready")
    => /\ StoreApplied(model.production_store,
                       trail[1].pre.production_store,
                       trail[1].production_store)
       /\ StoreApplied(model.routing_store, trail[1].pre.routing_store,
                       trail[1].routing_store)
       /\ BufferApplied(model.uh1, trail[1].unit_hydrographs, "uh1",
                        trail[1].params["X4"].v)
       /\ BufferApplied(model.uh2, trail[1].unit_hydrographs, "uh2",
                        2 * trail[1].params["X4"].v)

\* after a run that left flow in the stores and in uh2: an init that names
\* uh1 only and passes no store
C13_Witness ==
  /\ Len(trail) >= 2 /\ AfterInit /\ status = "ready" /\ trail[2].op = "run"
  /\ trail[1].production_store = None /\ trail[1].routing_store = None
  /\ Positive(model.production_store) /\ Positive(model.routing_store)
  /\ Named(trail[1].unit_hydrographs, "uh1")
  /\ ~Named(trail[1].unit_hydrographs, "uh2")
  /\ Len(model.uh1) = 3
  /\ ~AllZero(trail[1].pre.uh2) /\ AllZero(model.uh2)

\* --- C14 ----------------------------------------------------------------
\* C14: run never changes the shape of the engine.  After a run that
\* returned, whatever the inputs and the state it started from, x1..x4 are
\* what they were before the call and uh1 and uh2 have the lengths they had
\* before the call.
C14_RunKeepsShape ==
  (AfterRun /\ status = "ready")
    => /\ model.params = trail[1].pre.params
       /\ Len(model.uh1) = Len(trail[1].pre.uh1)
       /\ Len(model.uh2) = Len(trail[1].pre.uh2)

\* a run over two pairs that changed the stores and the contents of a
\* buffer shorter than its kernel
C14_Witness ==
  /\ AfterRun /\ status = "ready" /\ PairsOf(trail[1]) = 2
  /\ Len(model.uh2) < Len(ords.uh2_ordinates)
  /\ model.uh2 # trail[1].pre.uh2
  /\ model.production_store # trail[1].pre.production_store
  /\ model.routing_store # trail[1].pre.routing_store

====
